---- MODULE Spec2Model ----
(***************************************************************************)
(* volley: a fanotify drain loop (main) arms one quiescence timer per      *)
(* top-level entry of the watched directory; each timer expiry runs        *)
(* callback in its own goroutine, which renames the entry to the           *)
(* destination and then deletes the key from the timers map.               *)
(*                                                                         *)
(* Strings are sequences of one-character strings.  Time is a discrete     *)
(* clock; a runtime timer fires as soon as its deadline is reached (Tick   *)
(* is disabled while an armed timer is due), every other step may take     *)
(* any amount of time.                                                     *)
(***************************************************************************)
EXTENDS Integers, Sequences, FiniteSets, TLC

\* ----------------------------------------------------------------- bounds
MaxEvents == 3      \* notifications delivered by GetEvent in one run
MaxTime   == 4      \* last clock value explored
WaitFor   == 2      \* waitFor, in clock units (flag -wait)
MaxDepth  == 3      \* longest path below sourcePath handed to the classifier alone
MaxLiveEvents == 2  \* notifications delivered in the runs checked for liveness

\* ------------------------------------------------------- program constants
NoTimer == 0        \* timers[name] lookup with ok = false
Stopped == 0 - 1    \* a timer that is not pending (after Stop or after it ran)
MuFree  == 0        \* mu unlocked
MuMain  == 0 - 1    \* mu held by the drain loop (callbacks hold it as 1, 2, ...)

sourcePath == <<"/", "s">>

\* Paths the kernel reports: the mark is on the whole mount (FAN_MARK_MOUNT),
\* so paths outside sourcePath are delivered too.
Paths ==
  { <<"/", "s", "/", "a">>,                   \* /s/a     entry in the root
    <<"/", "s", "/", "a", "/", "f">>,         \* /s/a/f   file below that entry
    <<"/", "s", "2", "/", "a">>,              \* /s2/a    sibling sharing the prefix
    <<"/", "t", "/", "a">> }                  \* /t/a     unrelated directory

Masks == { {"FAN_MODIFY"}, {"FAN_CLOSE_WRITE"}, {"FAN_OPEN"} }

NoData == [path |-> <<>>, mask |-> {}, pathErr |-> FALSE, open |-> FALSE]

\* ---------------------------------------------------------- pure functions
\* strings.HasPrefix
HasPrefix(s, prefix) ==
  /\ Len(s) >= Len(prefix)
  /\ SubSeq(s, 1, Len(prefix)) = prefix

\* index of the last "/" of s, 0 when there is none
LastSlash(s) ==
  LET idx == { i \in 1..Len(s) : s[i] = "/" }
  IN  IF idx = {} THEN 0 ELSE CHOOSE i \in idx : \A j \in idx : j <= i

\* filepath.Split: <<dir, file>>, dir keeps its trailing slash
Split(path) ==
  LET i == LastSlash(path)
  IN  << SubSeq(path, 1, i), SubSeq(path, i + 1, Len(path)) >>

\* strings.Split(s, "/"): the fields between slashes, empty ones included
RECURSIVE StrSplit(_)
StrSplit(s) ==
  LET idx == { i \in 1..Len(s) : s[i] = "/" }
  IN  IF idx = {} THEN << s >>
      ELSE LET i == CHOOSE k \in idx : \A j \in idx : k <= j
           IN  << SubSeq(s, 1, i - 1) >> \o StrSplit(SubSeq(s, i + 1, Len(s)))

\* the components of filepath.Clean(p) for an absolute path without ".."
CleanComponents(p) ==
  SelectSeq(StrSplit(p), LAMBDA c : c # <<>> /\ c # <<".">>)

RECURSIVE Join(_)
Join(comps) ==
  IF comps = <<>> THEN <<>>
  ELSE IF Len(comps) = 1 THEN comps[1]
  ELSE comps[1] \o <<"/">> \o Join(Tail(comps))

\* filepath.Rel(basepath, targpath) for absolute paths
Rel(basepath, targpath) ==
  LET b == CleanComponents(basepath)
      t == CleanComponents(targpath)
      same == { i \in 0..Len(b) : i <= Len(t) /\ SubSeq(b, 1, i) = SubSeq(t, 1, i) }
      n == CHOOSE i \in same : \A j \in same : j <= i
      ups == [ i \in 1..(Len(b) - n) |-> <<".", ".">> ]
      comps == ups \o SubSeq(t, n + 1, Len(t))
  IN  IF comps = <<>> THEN <<".">> ELSE Join(comps)

\* a classifier that always answers with the file name
getWatchComponentFname(path, basePath) == Split(path)[2]

getWatchComponent(path, basePath) ==
  LET sp == Split(path)
      relPath == Rel(basePath, sp[1])
  IN  IF relPath = <<".">> THEN sp[2] ELSE StrSplit(relPath)[1]

\* path is basePath or a descendant of it, by path components
Within(path, basePath) ==
  LET b == CleanComponents(basePath)
      p == CleanComponents(path)
  IN  Len(p) >= Len(b) /\ SubSeq(p, 1, Len(b)) = b

\* every key the drain loop can compute
Keys == { getWatchComponent(p, sourcePath) : p \in { q \in Paths : HasPrefix(q, sourcePath) } }

\* a MatchMask that answers yes for every kind of event
MatchMaskAny(d, bit) == d.mask # {}

MatchMask(d, bit) == bit \in d.mask

\* ------------------------------------------------------------------ state
VARIABLES
  pc,       \* position of the drain loop in main
  data,     \* the notification being handled (open: not yet Closed)
  path,     \* main: path
  name,     \* main: name
  timer,    \* main: timer (index into tm, NoTimer when nil)
  ok,       \* main: ok
  timers,   \* the registry: name -> timer, NoTimer when the key is absent
  mu,       \* holder of the mutex
  tm,       \* the time.Timer objects created so far: [name, when]
  cbs,      \* the callback goroutines started so far: [path, timer, pc, err, at]
  now,      \* the clock
  nEvents,  \* notifications read so far
  evTimes,  \* history: per key, the times at which its events reset the timer
  nClosed   \* history: calls of data.Close() so far

vars == << pc, data, path, name, timer, ok, timers, mu, tm, cbs, now, nEvents, evTimes,
           nClosed >>

mainLocals == << path, name, timer, ok >>
history    == << evTimes, nClosed >>

\* what GetEvent can return: a modification of every path, every kind of event
\* for /s/a, and a notification whose path cannot be resolved
Notifications ==
  [path : Paths, mask : {{"FAN_MODIFY"}}, pathErr : {FALSE}, open : {TRUE}]
    \cup [path : {<<"/", "s", "/", "a">>}, mask : Masks, pathErr : {FALSE}, open : {TRUE}]
    \cup [path : {<<>>}, mask : {{"FAN_MODIFY"}}, pathErr : {TRUE}, open : {TRUE}]

Armed(t) == tm[t].when # Stopped

Init ==
  /\ pc = "get"
  /\ data = NoData
  /\ path = <<>>
  /\ name = <<>>
  /\ timer = NoTimer
  /\ ok = FALSE
  /\ timers = [k \in Keys |-> NoTimer]
  /\ mu = MuFree
  /\ tm = <<>>
  /\ cbs = <<>>
  /\ now = 0
  /\ nEvents = 0
  /\ evTimes = [k \in Keys |-> <<>>]
  /\ nClosed = 0

\* ------------------------------------------------------- the drain loop
\* log.Fatalf: os.Exit(1), the process and everything it held are gone
Fatal ==
  /\ pc' = "fatal"
  /\ data' = NoData
  /\ path' = <<>>
  /\ name' = <<>>
  /\ timer' = NoTimer
  /\ ok' = FALSE
  /\ timers' = [k \in Keys |-> NoTimer]
  /\ mu' = MuFree
  /\ tm' = <<>>
  /\ cbs' = <<>>
  /\ evTimes' = [k \in Keys |-> <<>>]
  /\ UNCHANGED << now, nEvents, nClosed >>

\* data, err := notify.GetEvent(os.Getpid())
\*   err != nil: log.Fatalf;  data == nil (an event of this process): continue
GetEvent ==
  /\ pc = "get"
  /\ \/ Fatal
     \/ UNCHANGED vars
     \/ /\ nEvents < MaxEvents
        /\ \E d \in Notifications : data' = d
        /\ nEvents' = nEvents + 1
        /\ pc' = "path"
        /\ UNCHANGED << mainLocals, timers, mu, tm, cbs, now, history >>

\* path, err := data.GetPath(): log.Fatalf on error
GetPath ==
  /\ pc = "path"
  /\ IF data.pathErr
       THEN Fatal
       ELSE /\ pc' = "filter"
            /\ path' = data.path
            /\ UNCHANGED << data, name, timer, ok, timers, mu, tm, cbs, now, nEvents, history >>

\* data.Close()
Close ==
  /\ data' = NoData
  /\ nClosed' = nClosed + 1

\* a filter that forgets to Close what it rejects
FilterNoClose ==
  /\ pc = "filter"
  /\ IF ~HasPrefix(path, sourcePath)
       THEN pc' = "get" /\ path' = <<>>
       ELSE pc' = "match" /\ path' = path
  /\ UNCHANGED << data, nClosed >>
  /\ UNCHANGED << name, timer, ok, timers, mu, tm, cbs, now, nEvents, evTimes >>

\* if !strings.HasPrefix(path, sourcePath) { data.Close(); continue }
Filter ==
  /\ pc = "filter"
  /\ IF ~HasPrefix(path, sourcePath)
       THEN pc' = "get" /\ Close /\ path' = <<>>
       ELSE pc' = "match" /\ UNCHANGED << data, nClosed >> /\ path' = path
  /\ UNCHANGED << name, timer, ok, timers, mu, tm, cbs, now, nEvents, evTimes >>

\* if data.MatchMask(FAN_CLOSE_WRITE) || data.MatchMask(FAN_MODIFY) { name := ... }
Match ==
  /\ pc = "match"
  /\ IF MatchMask(data, "FAN_CLOSE_WRITE") \/ MatchMask(data, "FAN_MODIFY")
       THEN pc' = "lock1" /\ name' = getWatchComponent(path, sourcePath)
       ELSE pc' = "close" /\ name' = name
  /\ UNCHANGED << data, path, timer, ok, timers, mu, tm, cbs, now, nEvents, history >>

\* mu.Lock()
MainLock1 ==
  /\ pc = "lock1"
  /\ mu = MuFree
  /\ mu' = MuMain
  /\ pc' = "lookup"
  /\ UNCHANGED << data, mainLocals, timers, tm, cbs, now, nEvents, history >>

\* timer, ok := timers[name]; mu.Unlock()
MainLookup ==
  /\ pc = "lookup"
  /\ timer' = timers[name]
  /\ ok' = (timers[name] # NoTimer)
  /\ mu' = MuFree
  /\ pc' = IF timers[name] # NoTimer THEN "reset" ELSE "create"
  /\ UNCHANGED << data, path, name, timers, tm, cbs, now, nEvents, history >>

\* timer = time.AfterFunc(math.MaxInt64, func() { callback(name) }); timer.Stop()
MainCreate ==
  /\ pc = "create"
  /\ tm' = Append(tm, [name |-> name, when |-> Stopped])
  /\ timer' = Len(tm) + 1
  /\ pc' = "lock2"
  /\ UNCHANGED << data, path, name, ok, timers, mu, cbs, now, nEvents, history >>

\* mu.Lock()
MainLock2 ==
  /\ pc = "lock2"
  /\ mu = MuFree
  /\ mu' = MuMain
  /\ pc' = "insert"
  /\ UNCHANGED << data, mainLocals, timers, tm, cbs, now, nEvents, history >>

\* timers[name] = timer; mu.Unlock()
MainInsert ==
  /\ pc = "insert"
  /\ timers' = [timers EXCEPT ![name] = timer]
  /\ mu' = MuFree
  /\ pc' = "reset"
  /\ UNCHANGED << data, mainLocals, tm, cbs, now, nEvents, history >>

\* a Reset that only arms a timer that is not pending
ResetIfStopped(t, d) ==
  IF tm[t].when # Stopped THEN tm ELSE [tm EXCEPT ![t].when = now + d]

\* timer.Reset(waitFor): pending again, whether or not it had already run
Reset(t, d) == [tm EXCEPT ![t].when = now + d]

MainReset ==
  /\ pc = "reset"
  /\ tm' = Reset(timer, WaitFor)
  /\ evTimes' = [evTimes EXCEPT ![name] = Append(@, now)]
  /\ pc' = "close"
  /\ UNCHANGED << data, mainLocals, timers, mu, cbs, now, nEvents, nClosed >>

\* data.Close(), next iteration
MainClose ==
  /\ pc = "close"
  /\ Close
  /\ path' = <<>>
  /\ name' = <<>>
  /\ timer' = NoTimer
  /\ ok' = FALSE
  /\ pc' = "get"
  /\ UNCHANGED << timers, mu, tm, cbs, now, nEvents, evTimes >>

\* ------------------------------------------------- timers and callbacks
Alive == pc # "fatal"

\* a callback that takes mu before it renames
FireHoldingLock(t) ==
  /\ Alive
  /\ Armed(t)
  /\ tm[t].when <= now
  /\ mu = MuFree
  /\ mu' = Len(cbs) + 1
  /\ tm' = [tm EXCEPT ![t].when = Stopped]
  /\ cbs' = Append(cbs, [path |-> tm[t].name, timer |-> t, pc |-> "rename",
                         err |-> FALSE, at |-> now])
  /\ UNCHANGED << pc, data, mainLocals, timers, now, nEvents, history >>

\* the runtime runs the timer's function in a new goroutine:
\* callback(name) prints and calls os.Rename
Fire(t) ==
  /\ Alive
  /\ Armed(t)
  /\ tm[t].when <= now
  /\ tm' = [tm EXCEPT ![t].when = Stopped]
  /\ cbs' = Append(cbs, [path |-> tm[t].name, timer |-> t, pc |-> "rename",
                         err |-> FALSE, at |-> now])
  /\ UNCHANGED << pc, data, mainLocals, timers, mu, now, nEvents, history >>

\* os.Rename returns, with or without an error (the error is only printed)
RenameReturn(c) ==
  /\ Alive
  /\ cbs[c].pc = "rename"
  /\ \E e \in BOOLEAN : cbs' = [cbs EXCEPT ![c].pc = "lock", ![c].err = e]
  /\ UNCHANGED << pc, data, mainLocals, timers, mu, tm, now, nEvents, history >>

\* mu.Lock()
CallbackLock(c) ==
  /\ Alive
  /\ cbs[c].pc = "lock"
  /\ mu = MuFree
  /\ mu' = c
  /\ cbs' = [cbs EXCEPT ![c].pc = "delete"]
  /\ UNCHANGED << pc, data, mainLocals, timers, tm, now, nEvents, history >>

\* a callback that ends without deleting its key
CallbackNoDelete(c) ==
  /\ Alive
  /\ cbs[c].pc = "delete"
  /\ mu' = MuFree
  /\ cbs' = [cbs EXCEPT ![c].pc = "done", ![c].err = FALSE]
  /\ UNCHANGED << pc, data, mainLocals, timers, tm, now, nEvents, history >>

\* a callback that empties the whole map
CallbackDeleteAll(c) ==
  /\ Alive
  /\ cbs[c].pc = "delete"
  /\ timers' = [k \in Keys |-> NoTimer]
  /\ mu' = MuFree
  /\ cbs' = [cbs EXCEPT ![c].pc = "done", ![c].err = FALSE]
  /\ UNCHANGED << pc, data, mainLocals, tm, now, nEvents, history >>

\* delete(timers, path); mu.Unlock(); the goroutine ends
CallbackDelete(c) ==
  /\ Alive
  /\ cbs[c].pc = "delete"
  /\ timers' = [timers EXCEPT ![cbs[c].path] = NoTimer]
  /\ mu' = MuFree
  /\ cbs' = [cbs EXCEPT ![c].pc = "done", ![c].err = FALSE]
  /\ UNCHANGED << pc, data, mainLocals, tm, now, nEvents, history >>

\* time passes; a due timer fires before the clock moves on
Tick ==
  /\ Alive
  /\ now < MaxTime
  /\ \A t \in 1..Len(tm) : Armed(t) => tm[t].when > now
  /\ now' = now + 1
  /\ UNCHANGED << pc, data, mainLocals, timers, mu, tm, cbs, nEvents, history >>

Next ==
  \/ GetEvent
  \/ GetPath
  \/ Filter
  \/ Match
  \/ MainLock1
  \/ MainLookup
  \/ MainCreate
  \/ MainLock2
  \/ MainInsert
  \/ MainReset
  \/ MainClose
  \/ \E t \in 1..Len(tm) : Fire(t)
  \/ \E c \in 1..Len(cbs) : RenameReturn(c)
  \/ \E c \in 1..Len(cbs) : CallbackLock(c)
  \/ \E c \in 1..Len(cbs) : CallbackDelete(c)
  \/ Tick

Spec == Init /\ [][Next]_vars

\* ------------------------------------------------- runs with fairness
\* the event source delivers at most MaxLiveEvents notifications
GetEventLive ==
  /\ nEvents < MaxLiveEvents
  /\ GetEvent

\* onEvent: the steps of the drain loop for a classified event
Handling ==
  \/ MainLock1
  \/ MainLookup
  \/ MainCreate
  \/ MainLock2
  \/ MainInsert
  \/ MainReset
  \/ MainClose

\* a timer fires and its callback runs to its end
Expiry ==
  \/ \E t \in 1..Len(tm) : Fire(t)
  \/ \E c \in 1..Len(cbs) : RenameReturn(c)
  \/ \E c \in 1..Len(cbs) : CallbackLock(c)
  \/ \E c \in 1..Len(cbs) : CallbackDelete(c)

\* what the scheduler, the runtime timers, the file system and the clock
\* keep doing; a notification may wait any time before it is classified
Progress ==
  \/ Handling
  \/ Expiry
  \/ Tick

NextLive ==
  \/ GetEventLive
  \/ GetPath
  \/ Filter
  \/ Match
  \/ Progress

SpecLive == Init /\ [][NextLive]_vars /\ WF_vars(Progress)

\* ------------------------------------------- the classifier on its own
\* names of files and directories below sourcePath
Names ==
  { <<"f", "o", "o", ".", "t", "x", "t">>,          \* foo.txt
    <<"s", "u", "b">>,                              \* sub
    <<"d", "e", "e", "p">>,                         \* deep
    <<"f", "i", "l", "e", ".", "b", "i", "n">> }    \* file.bin

\* every path of at most MaxDepth names below sourcePath
ClassifyPaths ==
  { sourcePath \o <<"/">> \o Join(comps) :
      comps \in UNION { [1..n -> Names] : n \in 1..MaxDepth } }

\* the drain loop holds a qualifying notification of a path below sourcePath
\* and is about to call getWatchComponent(path, sourcePath)
InitClassify ==
  /\ pc = "match"
  /\ \E p \in ClassifyPaths :
       /\ data = [path |-> p, mask |-> {"FAN_MODIFY"}, pathErr |-> FALSE, open |-> TRUE]
       /\ path = p
  /\ name = <<>>
  /\ timer = NoTimer
  /\ ok = FALSE
  /\ timers = [k \in Keys |-> NoTimer]
  /\ mu = MuFree
  /\ tm = <<>>
  /\ cbs = <<>>
  /\ now = 0
  /\ nEvents = 1
  /\ evTimes = [k \in Keys |-> <<>>]
  /\ nClosed = 0

NextClassify == Match

SpecClassify == InitClassify /\ [][NextClassify]_vars

TypeOK ==
  /\ pc \in {"get", "path", "filter", "match", "lock1", "lookup", "create",
             "lock2", "insert", "reset", "close", "fatal"}
  /\ timers \in [Keys -> 0..Len(tm)]
  /\ mu \in {MuFree, MuMain} \cup 1..Len(cbs)
  /\ now \in 0..MaxTime
  /\ nEvents \in 0..MaxEvents


\* ------------------------------------------------------------ properties
\* how many times timer t has run its function
Fires(t) == Cardinality({ c \in 1..Len(cbs) : cbs[c].timer = t })

\* the times at which a relocation of key k was started, in order
RECURSIVE RelocsOf(_, _)
RelocsOf(s, k) ==
  IF s = <<>> THEN <<>>
  ELSE (IF Head(s).path = k THEN << Head(s).at >> ELSE <<>>) \o RelocsOf(Tail(s), k)

Relocs(k) == RelocsOf(cbs, k)

LastEv(k) == evTimes[k][Len(evTimes[k])]

\* every event of k so far came less than waitFor after the previous one
IsBurst(k) ==
  \A i \in 2..Len(evTimes[k]) : evTimes[k][i] - evTimes[k][i - 1] < WaitFor

\* C1: reset and fire are mutually exclusive per key - when the drain loop
\* has seen a timer under name and is about to reset it, that timer is
\* still the registry's entry for name (no expiry retired it in between).
C1_ResetFireExclusive ==
  (pc = "reset" /\ ok) => timers[name] = timer

\* C2: the key is removed from the registry before its relocation begins -
\* while a callback's rename is in progress, the timer that triggered it
\* is no longer in the registry.
C2_RemovedBeforeRelocation ==
  \A c \in 1..Len(cbs) :
    cbs[c].pc = "rename" => timers[cbs[c].path] # cbs[c].timer

C4_NoPrematureFire ==
  [][ Len(cbs') > Len(cbs) =>
        LET k == cbs'[Len(cbs')].path
        IN  \A i \in 1..Len(evTimes[k]) : now >= evTimes[k][i] + WaitFor ]_vars

\* C5: post-expiry re-arming - a lookup made after a timer has fired does
\* not hand that timer to the reset; the event gets a timer that never ran.
C5_FreshTimerAfterExpiry ==
  [][ (pc = "lookup" /\ pc' = "reset") =>
        \A c \in 1..Len(cbs) : cbs[c].timer # timer' ]_vars

\* C6: exactly-once retirement - no timer runs its expiry callback twice.
C6_FiresOnce ==
  \A t \in 1..Len(tm) : Fires(t) <= 1

\* C8: a failed path resolution is not fatal - the drain loop goes back to
\* GetEvent and neither the registry nor any timer changes.
C8_PathErrorNonFatal ==
  [][ (pc = "path" /\ data.pathErr /\ pc' # "path") =>
        (pc' = "get" /\ timers' = timers /\ tm' = tm) ]_vars

\* C9: a failed relocation is not retried - when the callback whose rename
\* failed has retired its key, the key is absent from the registry and no
\* timer of that key is pending.
C9_FailedRelocationNotRetried ==
  [][ \A c \in 1..Len(cbs) :
        ( /\ cbs[c].pc = "delete"
          /\ cbs[c].err
          /\ Len(cbs') = Len(cbs)
          /\ cbs'[c].pc = "done" ) =>
        ( /\ timers'[cbs[c].path] = NoTimer
          /\ \A t \in 1..Len(tm') :
               tm'[t].name = cbs[c].path => tm'[t].when = Stopped ) ]_vars

\* C10: every path handed to the classifier lies within the watched root,
\* by path components.
C10_ClassifiedWithinRoot ==
  pc \in {"lock1", "lookup", "create", "lock2", "insert", "reset"} =>
    Within(path, sourcePath)


\* C11: non-qualifying events are ignored - no step the drain loop takes
\* for a notification that is neither FAN_MODIFY nor FAN_CLOSE_WRITE
\* changes the registry or any timer.
C11_NonQualifyingIgnored ==
  [][ ( /\ data.open
        /\ "FAN_MODIFY" \notin data.mask
        /\ "FAN_CLOSE_WRITE" \notin data.mask
        /\ pc' # pc ) =>
      (timers' = timers /\ tm' = tm) ]_vars

\* C11 witness: a non-qualifying notification has been handled up to its
\* Close while the registry holds a pending timer
C11_Witness ==
  /\ pc = "close"
  /\ data.open
  /\ "FAN_MODIFY" \notin data.mask
  /\ "FAN_CLOSE_WRITE" \notin data.mask
  /\ \E k \in Keys : timers[k] # NoTimer /\ Armed(timers[k])


\* the top-level entry of sourcePath that path lies in
TopEntry(p) == CleanComponents(p)[Len(CleanComponents(sourcePath)) + 1]

\* what the classifier is specified to return for a path below sourcePath
ExpectedKey(p) ==
  LET c == CleanComponents(p)
  IN  IF Len(c) = Len(CleanComponents(sourcePath)) + 1
        THEN c[Len(c)]
        ELSE TopEntry(p)

\* C12: classifier correctness - the key of a path below the root is its
\* final name when it is a direct child and the first segment below the
\* root otherwise, and another path below the root gets the same key
\* exactly when it lies in the same top-level entry.
C12_Classifier ==
  pc = "lock1" =>
    /\ name = ExpectedKey(path)
    /\ \A q \in ClassifyPaths :
         (getWatchComponent(q, sourcePath) = name) <=> (TopEntry(q) = TopEntry(path))

\* C12 witness: /s/sub/deep/file.bin has been classified as "sub"
C12_Witness ==
  /\ pc = "lock1"
  /\ path = sourcePath \o <<"/", "s", "u", "b", "/", "d", "e", "e", "p", "/",
                            "f", "i", "l", "e", ".", "b", "i", "n">>
  /\ name = <<"s", "u", "b">>


\* C13: relocation never blocks the drain loop - mu is never held by a
\* callback whose rename is in progress; whoever holds mu is at the map
\* operation that is followed by Unlock, and that step can be taken, so no
\* state is a deadlock on the lock.
C13_RenameOutsideLock ==
  /\ \A c \in 1..Len(cbs) : cbs[c].pc = "rename" => mu # c
  /\ mu = MuMain => pc \in {"lookup", "insert"}
  /\ \A c \in 1..Len(cbs) : mu = c => cbs[c].pc = "delete"
  /\ mu # MuFree =>
       ENABLED (MainLookup \/ MainInsert \/ \E c \in 1..Len(cbs) : CallbackDelete(c))

\* C13 witness: while a rename is in progress the drain loop has taken an
\* event through lookup and Reset, after the time that rename began
C13_Witness ==
  \E c \in 1..Len(cbs) :
    /\ cbs[c].pc = "rename"
    /\ pc = "close"
    /\ name \in Keys
    /\ evTimes[name] # <<>>
    /\ LastEv(name) > cbs[c].at


\* C14: every notification is Closed exactly once before the next one is
\* fetched - at GetEvent every notification read so far has been closed
\* once, and while one is being handled it is the only one not yet closed.
C14_ClosedOnce ==
  /\ pc = "get" => (nClosed = nEvents /\ ~data.open)
  /\ pc \notin {"get", "fatal"} => (nClosed = nEvents - 1 /\ data.open)

\* C14 witness: three notifications handled and closed, two of them
\* having reset the same key's timer and one having taken another path
C14_Witness ==
  /\ pc = "get"
  /\ nClosed = 3
  /\ \E k \in Keys : Len(evTimes[k]) = 2
  /\ \A k \in Keys : Len(evTimes[k]) \in {0, 2}


\* C15: no orphan timers - every pending timer is the timer stored in the
\* registry under its key.
C15_NoOrphanTimers ==
  \A t \in 1..Len(tm) : Armed(t) => timers[tm[t].name] = t

\* C16: an expiry retires only its own timer - when a callback's delete
\* removes an entry, that entry is the timer that started the callback.
C16_RetiresOwnTimer ==
  [][ \A c \in 1..Len(cbs) :
        ( /\ cbs[c].pc = "delete"
          /\ Len(cbs') = Len(cbs)
          /\ cbs'[c].pc = "done"
          /\ timers[cbs[c].path] # NoTimer ) =>
        timers[cbs[c].path] = cbs[c].timer ]_vars

\* the registry entry and the timers of key k are the same before and
\* after the step, and the step creates no timer for k
SameKey(k) ==
  /\ timers'[k] = timers[k]
  /\ Len(tm') >= Len(tm)
  /\ \A t \in 1..Len(tm) : tm[t].name = k => tm'[t] = tm[t]
  /\ \A t \in (Len(tm) + 1)..Len(tm') : tm'[t].name # k
  /\ \A c \in (Len(cbs) + 1)..Len(cbs') : cbs'[c].path # k

\* C17: key independence - a step of the drain loop for an event of key
\* name, the expiry of a timer of a key and the steps of a callback of a
\* key leave the registry entry and the timers of every other key
\* unchanged and start no relocation of another key.
C17_KeyIndependence ==
  [][ /\ (pc' # pc /\ pc' # "fatal") =>
           \A k \in DOMAIN timers : (k # name /\ k # name') => SameKey(k)
      /\ \A t \in 1..Len(tm) :
           (pc' # "fatal" /\ tm[t].when # Stopped /\ tm'[t].when = Stopped) =>
             \A k \in DOMAIN timers : k # tm[t].name => SameKey(k)
      /\ \A c \in 1..Len(cbs) :
           (pc' # "fatal" /\ cbs'[c].pc # cbs[c].pc) =>
             \A k \in DOMAIN timers : k # cbs[c].path => SameKey(k) ]_vars

\* C17 witness: two keys are registered with pending timers of different
\* deadlines, the later event having left the earlier key's deadline alone
C17_Witness ==
  \E k1, k2 \in Keys :
    /\ k1 # k2
    /\ timers[k1] # NoTimer /\ timers[k2] # NoTimer
    /\ Armed(timers[k1]) /\ Armed(timers[k2])
    /\ LastEv(k1) < LastEv(k2)
    /\ tm[timers[k1]].when = LastEv(k1) + WaitFor
    /\ tm[timers[k2]].when = LastEv(k2) + WaitFor


\* key k has been relocated for its last event, is absent from the
\* registry and has no pending timer
Retired(k) ==
  /\ timers[k] = NoTimer
  /\ \A t \in 1..Len(tm) : tm[t].name = k => ~Armed(t)
  /\ \A c \in 1..Len(cbs) : cbs[c].path = k => cbs[c].pc = "done"
  /\ \E c \in 1..Len(cbs) : cbs[c].path = k /\ cbs[c].at = LastEv(k) + WaitFor

\* C18: eventual retirement - while the process lives, every key whose
\* events have stopped (their last deadline lying within the clock range)
\* is eventually and for good relocated, absent from the registry and
\* without a pending timer.
C18_EventualRetirement ==
  <>[]( pc = "fatal" \/
        \A k \in Keys :
          (evTimes[k] # <<>> /\ LastEv(k) + WaitFor <= MaxTime) => Retired(k) )

\* C18 witness: a key with two events, one of them handled after its
\* timer had fired, is retired
C18_Witness ==
  \E k \in Keys :
    /\ Len(evTimes[k]) = 2
    /\ Len(Relocs(k)) = 2
    /\ Retired(k)

====
